---- MODULE Spec2Model ----
(***************************************************************************)
(* Model of the retrieval core of pdf-document-rag:                        *)
(*   backend/app/core/cache_manager.py        CacheManager                 *)
(*   backend/app/core/vector_store.py         VectorStoreManager           *)
(*   backend/app/core/enhanced_vector_store.py EnhancedVectorStore         *)
(*                                                                         *)
(* Python dicts are insertion ordered: a dict is modelled as a sequence of *)
(* records [k, v] without duplicate keys.  An Optional value is a sequence *)
(* of length at most one: <<>> is None, <<v>> is the value v.              *)
(***************************************************************************)
EXTENDS Integers, Sequences, FiniteSets, TLC

VARIABLES
    memory_cache,      \* CacheManager.memory_cache: dict key -> value
    cache_timestamps,  \* CacheManager.cache_timestamps: dict key -> insertion time
    now,               \* datetime.now(), in seconds
    collections,       \* the Chroma client: document id -> None or its stored chunks
    distinct_sets,     \* history: the sets since construction, while they are the only
                       \* calls made and their keys are pairwise distinct
    ret,               \* the last call: its name, arguments and returned value
    threads,           \* the calls of the cache that concurrent threads are making
    documents,         \* the documents table: document id -> None or its row
    processing,        \* DocumentTaskProcessor.processing
    tasks,             \* the process_single_document tasks created and not yet run
    poller             \* where start_polling is in its loop

\* the state of the document task processor
ingestion == <<documents, processing, tasks, poller>>

vars ==
    <<memory_cache, cache_timestamps, now, collections, distinct_sets, ret, threads, ingestion>>

-----------------------------------------------------------------------------
(* Bounds of the model and constants of the program.                       *)

\* memory_cache_maxsize is 1000 in cache_manager.py:15; the model runs the
\* same code with a small capacity so that the cache fills up.
memory_cache_maxsize == 2

NumKeys == memory_cache_maxsize + 1

MaxTicks == 2

SWEEP_AGE == 3600

TickSeconds == SWEEP_AGE

CacheKeys == {"key" \o ToString(i) : i \in 1..NumKeys}

CacheValues == {<<>>, <<1>>}

Expires == {SWEEP_AGE \div 2, 2 * SWEEP_AGE}

None == <<>>

Some(v) == <<v>>

-----------------------------------------------------------------------------
(* Python dict operations on the sequence representation.                  *)

DictKeys(d) == {d[i].k : i \in DOMAIN d}

DictHas(d, key) == key \in DictKeys(d)

DictIndex(d, key) == CHOOSE i \in DOMAIN d : d[i].k = key

\* d.get(key): None when the key is absent
DictGet(d, key) == IF DictHas(d, key) THEN Some(d[DictIndex(d, key)].v) ELSE None

\* d[key] = value: an existing key keeps its position, a new key goes last
DictPut(d, key, value) ==
    IF DictHas(d, key)
    THEN [d EXCEPT ![DictIndex(d, key)] = [k |-> key, v |-> value]]
    ELSE Append(d, [k |-> key, v |-> value])

\* del d[key]
DictDel(d, key) == SelectSeq(d, LAMBDA e : e.k # key)

-----------------------------------------------------------------------------
(* CacheManager                                                            *)

\* _is_expired(key, expire); no method of the class calls it
_is_expired(ts, key, expire, t) ==
    IF ~DictHas(ts, key) THEN TRUE
    ELSE t - DictGet(ts, key)[1] > expire

\* get(key): the value stored under key, or None
get(mc, key) == DictGet(mc, key)

\* mutant of cache_after_get: a hit moves the key to the end of both dicts
cache_after_get_refreshed(c, key) ==
    IF DictHas(c.mc, key)
    THEN [mc |-> Append(DictDel(c.mc, key), [k |-> key, v |-> DictGet(c.mc, key)[1]]),
          ts |-> IF DictHas(c.ts, key)
                 THEN Append(DictDel(c.ts, key), [k |-> key, v |-> DictGet(c.ts, key)[1]])
                 ELSE c.ts]
    ELSE c

\* the cache after get(key): the method writes to neither dict
cache_after_get(c, key) == c

\* mutant of evict_oldest: the cache is never trimmed
evict_never(c) == c

\* mutant of evict_oldest: the most recently inserted key is dropped
evict_newest(c) ==
    IF Len(c.mc) >= memory_cache_maxsize
    THEN LET newest_key == c.mc[Len(c.mc)].k
         IN  [mc |-> DictDel(c.mc, newest_key),
              ts |-> DictDel(c.ts, newest_key)]
    ELSE c

\* the eviction branch of set: drop the first key of memory_cache
evict_oldest(c) ==
    IF Len(c.mc) >= memory_cache_maxsize
    THEN LET oldest_key == c.mc[1].k
         IN  [mc |-> DictDel(c.mc, oldest_key),
              ts |-> IF DictHas(c.ts, oldest_key) THEN DictDel(c.ts, oldest_key) ELSE c.ts]
    ELSE c

\* mutant of set: the entry is stored first and the cache then trimmed with
\* dict.popitem(), which drops the last inserted key
set_then_popitem(c, key, value, expire, t) ==
    LET mc == DictPut(c.mc, key, value)
        ts == DictPut(c.ts, key, t)
    IN  IF Len(mc) > memory_cache_maxsize
        THEN [mc |-> DictDel(mc, mc[Len(mc)].k), ts |-> DictDel(ts, mc[Len(mc)].k)]
        ELSE [mc |-> mc, ts |-> ts]

\* set(key, value, expire) on the cache c = [mc, ts] at time t; expire is not used
set(c, key, value, expire, t) ==
    LET e == evict_oldest(c)
    IN  [mc |-> DictPut(e.mc, key, value),
         ts |-> DictPut(e.ts, key, t)]

\* mutant of delete: the timestamp of the key stays
delete_value_only(c, key) ==
    [mc |-> IF DictHas(c.mc, key) THEN DictDel(c.mc, key) ELSE c.mc,
     ts |-> c.ts]

\* delete(key)
delete(c, key) ==
    [mc |-> IF DictHas(c.mc, key) THEN DictDel(c.mc, key) ELSE c.mc,
     ts |-> IF DictHas(c.ts, key) THEN DictDel(c.ts, key) ELSE c.ts]

RECURSIVE delete_all(_, _)
delete_all(c, keys) ==
    IF keys = <<>> THEN c ELSE delete_all(delete(c, Head(keys)), Tail(keys))

\* mutant of expired_keys: an entry of exactly the sweep age is collected too
expired_keys_inclusive(ts, t) ==
    LET old == SelectSeq(ts, LAMBDA e : t - e.v >= SWEEP_AGE)
    IN  [i \in DOMAIN old |-> old[i].k]

\* the keys clear_expired collects, in the order of cache_timestamps
expired_keys(ts, t) ==
    LET old == SelectSeq(ts, LAMBDA e : t - e.v > SWEEP_AGE)
    IN  [i \in DOMAIN old |-> old[i].k]

\* clear_expired()
clear_expired(c, t) == delete_all(c, expired_keys(c.ts, t))

Cache == [mc |-> memory_cache, ts |-> cache_timestamps]

Install(c) ==
    /\ memory_cache' = c.mc
    /\ cache_timestamps' = c.ts

Taint == [pure |-> FALSE, sets |-> <<>>]

\* the threads that call the cache
Threads == {1, 2}

\* the ids of the documents that are uploaded
DocIds == {"doc1", "doc2"}

\* a thread that is in no call of the cache
Idle == [op |-> "", key |-> "", value |-> None, pc |-> "idle", oldest_key |-> "",
         result |-> None, full |-> FALSE]

-----------------------------------------------------------------------------
(* The calls of the cache, one at a time.                                  *)

CacheSet(key, value, expire) ==
    /\ Install(set(Cache, key, value, expire, now))
    /\ UNCHANGED <<now, collections>>
    /\ UNCHANGED <<threads, ingestion>>
    /\ distinct_sets' =
         IF distinct_sets.pure /\ key \notin {distinct_sets.sets[i].k : i \in DOMAIN distinct_sets.sets}
                               /\ Len(distinct_sets.sets) <= memory_cache_maxsize
         THEN [pure |-> TRUE, sets |-> Append(distinct_sets.sets, [k |-> key, v |-> value])]
         ELSE Taint
    /\ ret' = [op |-> "set", key |-> key, value |-> value, expire |-> expire,
               at |-> now, result |-> TRUE,
               full |-> Len(memory_cache) >= memory_cache_maxsize,
               present |-> DictHas(memory_cache, key)]

CacheGet(key) ==
    /\ Install(cache_after_get(Cache, key))
    /\ UNCHANGED <<now, collections>>
    /\ UNCHANGED <<threads, ingestion>>
    /\ distinct_sets' = Taint
    /\ ret' = [op |-> "get", key |-> key, value |-> None,
               result |-> get(memory_cache, key),
               \* the set that stored this key, when it was the call before
               stored |-> IF ret.op = "set" /\ ret.key = key
                          THEN Some([value |-> ret.value, expire |-> ret.expire, at |-> ret.at,
                                     full |-> ret.full, present |-> ret.present])
                          ELSE None]

CacheDelete(key) ==
    /\ Install(delete(Cache, key))
    /\ UNCHANGED <<now, collections>>
    /\ UNCHANGED <<threads, ingestion>>
    /\ distinct_sets' = Taint
    /\ ret' = [op |-> "delete", key |-> key, value |-> None, result |-> TRUE]

CacheClearExpired ==
    /\ Install(clear_expired(Cache, now))
    /\ UNCHANGED <<now, collections>>
    /\ UNCHANGED <<threads, ingestion>>
    /\ distinct_sets' = Taint
    /\ ret' = [op |-> "clear_expired", key |-> "", value |-> None,
               at |-> now, before |-> Cache,
               \* the set that was the call before
               stored |-> IF ret.op = "set"
                          THEN Some([key |-> ret.key, expire |-> ret.expire, at |-> ret.at])
                          ELSE None]

\* time passes
Tick ==
    /\ now < MaxTicks * TickSeconds
    /\ now' = now + TickSeconds
    /\ UNCHANGED <<memory_cache, cache_timestamps, collections, distinct_sets, ret, threads, ingestion>>

-----------------------------------------------------------------------------
(* Numbers.  A Python float is a fixed-point integer in units of 1/One; a  *)
(* product of two floats is rounded down to the unit.                      *)

One == 10000

Pct(p) == (p * One) \div 100

Min(a, b) == IF a <= b THEN a ELSE b

Max(a, b) == IF a >= b THEN a ELSE b

\* opt if it holds a value, else the default: dict.get(key, default)
OrElse(opt, default) == IF opt = None THEN default ELSE opt[1]

\* results[:k] for k >= 0
Take(results, k) == SubSeq(results, 1, Min(k, Len(results)))

\* list.sort(key=similarity_score, reverse=True): stable, highest score first
RECURSIVE sort_desc(_)
sort_desc(results) ==
    IF results = <<>> THEN <<>>
    ELSE LET sorted == sort_desc(SubSeq(results, 1, Len(results) - 1))
             x == results[Len(results)]
             n == Cardinality({i \in DOMAIN sorted :
                                 sorted[i].similarity_score >= x.similarity_score})
         IN  SubSeq(sorted, 1, n) \o <<x>> \o SubSeq(sorted, n + 1, Len(sorted))

-----------------------------------------------------------------------------
(* The documents, chunks and queries of the model, and what the libraries  *)
(* (jieba, re, the embedding model) return for their texts.                *)

Docs == {"doc1"}

Ks == {1, 2}

\* the texts are written in pinyin: "机器学习方法"
Q1 == "jiqixuexifangfa"

Queries == {Q1}

\* result["chunks"] of DocumentProcessor.process_document for the document
Chunk1 ==
    [chunk_id |-> "c1", chunk_index |-> 0, content |-> "jiqixuexishiyizhongfangfa",
     keywords |-> <<"jiqi", "xuexi", "fangfa">>, summary |-> "jiqixuexifangfa",
     quality_score |-> Pct(80)]

Chunk2 ==
    [chunk_id |-> "c2", chunk_index |-> 1, content |-> "tianqihenhao",
     keywords |-> <<>>, summary |-> "",
     quality_score |-> Pct(0)]

Chunk3 ==
    [chunk_id |-> "c3", chunk_index |-> 2, content |-> "1. xitongfenxidefangfahejieguo.",
     keywords |-> <<"xitong", "fenxi">>, summary |-> "jieguo",
     quality_score |-> Pct(100)]

DocChunks == <<Chunk1, Chunk2, Chunk3>>

RECURSIVE Join(_)
\* " ".join(words)
Join(words) ==
    IF words = <<>> THEN ""
    ELSE IF Len(words) = 1 THEN words[1]
    ELSE words[1] \o " " \o Join(Tail(words))

\* summary == content[:len(summary)]: of the model's texts only the first
\* chunk's content starts with a text of the model other than itself
StartsWith(content, prefix) ==
    \/ prefix = ""
    \/ prefix = content
    \/ content = "jiqixuexishiyizhongfangfa" /\ prefix \in {"jiqi", "jiqixuexi"}

\* _enhance_text_for_embedding(chunk)
_enhance_text_for_embedding(chunk) ==
    LET keyword_text == Join(chunk.keywords)
        with_keywords ==
            IF chunk.keywords # <<>>
            THEN <<chunk.content, "\nzhongyaogainian: " \o keyword_text, keyword_text>>
            ELSE <<chunk.content>>
        with_summary ==
            IF chunk.summary # "" /\ ~StartsWith(chunk.content, chunk.summary)
            THEN Append(with_keywords, "\nneirongyaodian: " \o chunk.summary)
            ELSE with_keywords
    IN  Join(with_summary)

EnhancedText1 == _enhance_text_for_embedding(Chunk1)

EnhancedText3 == _enhance_text_for_embedding(Chunk3)

\* len(text), in characters of the original text; the third chunk stands for a
\* paragraph of 1200 characters
TextLen(text) ==
    CASE text = Q1 -> 6
      [] text = Chunk1.content -> 9
      [] text = Chunk2.content -> 4
      [] text = Chunk3.content -> 1200
      [] text = EnhancedText1 -> 48
      [] text = EnhancedText3 -> 1229
      [] OTHER -> 10

\* the distance of the stored text of a chunk to the query, as the embedding
\* model and Chroma compute it (L2: not bounded by 1)
Distance(id, query) ==
    CASE query = Q1 /\ id = "c1" -> Pct(30)
      [] query = Q1 /\ id = "c3" -> Pct(120)
      [] query = Q1 /\ id = "c2" -> Pct(130)
      \* the expanded query
      [] id = "c3" -> Pct(40)
      [] id = "c2" -> Pct(60)
      [] OTHER -> Pct(130)

-----------------------------------------------------------------------------
(* VectorStoreManager                                                      *)

NoMetadata ==
    [chunk_id |-> None, chunk_index |-> None, keywords |-> None, summary |-> None,
     quality_score |-> None, original_content |-> None]

\* the entry add_document_chunks stores for a chunk
plain_entry(chunk) ==
    [id |-> chunk.chunk_id,
     document |-> chunk.content,
     metadata |-> [NoMetadata EXCEPT !.chunk_id = Some(chunk.chunk_id),
                                     !.chunk_index = Some(chunk.chunk_index)]]

\* the entry add_document_chunks_enhanced stores for a chunk
enhanced_entry(chunk) ==
    [id |-> chunk.chunk_id,
     document |-> _enhance_text_for_embedding(chunk),
     metadata |-> [chunk_id |-> Some(chunk.chunk_id),
                   chunk_index |-> Some(chunk.chunk_index),
                   keywords |-> Some(chunk.keywords),
                   summary |-> Some(chunk.summary),
                   quality_score |-> Some(chunk.quality_score),
                   original_content |-> Some(chunk.content)]]

\* Chroma's add_texts: an entry whose id is stored already replaces it
RECURSIVE upsert(_, _)
upsert(stored, entries) ==
    IF entries = <<>> THEN stored
    ELSE LET e == Head(entries)
             at == {i \in DOMAIN stored : stored[i].id = e.id}
         IN  upsert(IF at = {} THEN Append(stored, e)
                    ELSE [i \in DOMAIN stored |-> IF i \in at THEN e ELSE stored[i]],
                    Tail(entries))

\* create_document_collection(document_id)
create_document_collection(colls, document_id) ==
    IF colls[document_id] # None THEN colls
    ELSE [colls EXCEPT ![document_id] = Some(<<>>)]

\* add_document_chunks(document_id, chunks); Chroma(...) gets or creates the collection
add_document_chunks(colls, document_id, chunks) ==
    LET c == create_document_collection(colls, document_id)
    IN  [c EXCEPT ![document_id] =
            Some(upsert(c[document_id][1], [i \in DOMAIN chunks |-> plain_entry(chunks[i])]))]

\* add_document_chunks_enhanced(document_id, chunks)
add_document_chunks_enhanced(colls, document_id, chunks) ==
    LET c == create_document_collection(colls, document_id)
    IN  [c EXCEPT ![document_id] =
            Some(upsert(c[document_id][1], [i \in DOMAIN chunks |-> enhanced_entry(chunks[i])]))]

\* delete_document_collection(document_id)
delete_document_collection(colls, document_id) ==
    IF colls[document_id] = None THEN colls
    ELSE [colls EXCEPT ![document_id] = None]

\* similarity_search_with_score(query, k): the k nearest entries, nearest first
RECURSIVE nearest_first(_, _)
nearest_first(stored, query) ==
    IF stored = <<>> THEN <<>>
    ELSE LET sorted == nearest_first(SubSeq(stored, 1, Len(stored) - 1), query)
             x == stored[Len(stored)]
             n == Cardinality({i \in DOMAIN sorted :
                                 Distance(sorted[i].id, query) <= Distance(x.id, query)})
         IN  SubSeq(sorted, 1, n) \o <<x>> \o SubSeq(sorted, n + 1, Len(sorted))

\* search_similar_chunks(document_id, query, k)
search_similar_chunks(colls, document_id, query, k) ==
    IF colls[document_id] = None THEN <<>>
    ELSE LET results == Take(nearest_first(colls[document_id][1], query), k)
         IN  [i \in DOMAIN results |->
                [content |-> results[i].document,
                 metadata |-> results[i].metadata,
                 similarity_score |-> Distance(results[i].id, query),
                 chunk_id |-> OrElse(results[i].metadata.chunk_id, ""),
                 chunk_index |-> OrElse(results[i].metadata.chunk_index, 0)]]

-----------------------------------------------------------------------------
(* EnhancedVectorStore: the cached vector search                           *)

\* hashlib.md5(data).hexdigest(): a digest that tells distinct inputs apart
md5(data) == "md5(" \o data \o ")"

\* _generate_key(prefix, data)
_generate_key(prefix, data) == prefix \o ":" \o md5(data)

\* search_cache_key(document_id, query, k)
search_cache_key(document_id, query, k) ==
    _generate_key("search", document_id \o ":" \o query \o ":" \o ToString(k))

\* the truth value of an Optional list: None and [] are false
Truthy(opt) == opt # None /\ opt[1] # <<>>

\* search_similar_chunks_with_cache(document_id, query, k) on the cache c at time t:
\* the list returned, the cache afterwards and the number of vector searches made
search_similar_chunks_with_cache(c, colls, document_id, query, k, t) ==
    LET cache_key == search_cache_key(document_id, query, k)
        cached_result == get(c.mc, cache_key)
    IN  IF Truthy(cached_result)
        THEN [results |-> cached_result[1], cache |-> c, searches |-> 0]
        ELSE LET results == search_similar_chunks(colls, document_id, query, k)
             IN  [results |-> results,
                  cache |-> set(c, cache_key, results, 3600, t),
                  searches |-> 1]

-----------------------------------------------------------------------------
(* EnhancedVectorStore: what jieba and re return for the model's texts     *)

\* self.stop_words, in pinyin (a digit tells homophones apart)
stop_words ==
    {"de", "le", "zai", "shi", "wo", "you", "he", "jiu", "bu", "ren", "dou", "yi", "yige",
     "zhe", "na", "ta1", "ta2", "ta3", "men", "yu", "ji", "yi3", "wei", "dao", "cong", "bei",
     "ba", "rang", "shi3", "deng", "dengdeng", "ru", "ruguo", "yinwei", "suoyi", "danshi",
     "raner", "erqie", "huozhe", "bingqie", "ye", "hai", "you4", "zai4", "geng", "zui",
     "hen", "feichang"}

\* the words of the model that are a single character in the original text
SingleCharacter == {"de", "shi", "he", "hen", "hao", "1", ".", " "}

\* len(w) > 1
LongWord(w) == w \notin SingleCharacter

\* set(jieba.cut(text.lower()))
cut(text) ==
    CASE text = "jiqixuexifangfa" -> {"jiqi", "xuexi", "fangfa"}
      [] text = "tianqi" -> {"tianqi"}
      [] text = "jiqixuexishiyizhongfangfa" -> {"jiqixuexi", "shi", "yizhong", "fangfa"}
      [] text = "tianqihenhao" -> {"tianqi", "hen", "hao"}
      [] text = "1. xitongfenxidefangfahejieguo." ->
             {"1", ".", " ", "xitong", "fenxi", "de", "fangfa", "he", "jieguo"}
      [] text = "jieguo" -> {"jieguo"}
      [] text = "dehe" -> {"de", "he"}
      [] OTHER -> {}

\* word in text.lower(): the words of the text, and the words inside its words
Contains(text, word) ==
    \/ word \in cut(text)
    \/ text = "jiqixuexishiyizhongfangfa" /\ word \in {"jiqi", "xuexi"}

\* jieba.analyse.extract_tags(text, topK): the model's texts have fewer tags than topK
extract_tags(text) ==
    CASE text = "jiqixuexifangfa" -> <<"jiqi", "xuexi", "fangfa">>
      [] text = "tianqi" -> <<"tianqi">>
      [] text = "jiqixuexishiyizhongfangfa" -> <<"jiqixuexi", "fangfa", "yizhong">>
      [] text = "tianqihenhao" -> <<"tianqi">>
      [] text = "1. xitongfenxidefangfahejieguo." -> <<"xitong", "fenxi", "fangfa", "jieguo">>
      [] OTHER -> <<>>

\* the three re searches of _extract_semantic_features on the text
structure_of(text) ==
    IF text = "1. xitongfenxidefangfahejieguo."
    THEN [has_list |-> TRUE, has_title |-> FALSE, sentence_count |-> 1]
    ELSE [has_list |-> FALSE, has_title |-> FALSE, sentence_count |-> 0]

Range(seq) == {seq[i] : i \in DOMAIN seq}

\* synonyms_map of _expand_query: fangfa, wenti, jieguo, fenxi, xitong
synonyms_map(keyword) ==
    CASE keyword = "fangfa" -> <<"shouduan", "tujing", "celue">>
      [] keyword = "wenti" -> <<"nanti", "kunnan", "tiaozhan">>
      [] keyword = "jieguo" -> <<"chengguo", "xiaoguo", "chanchu">>
      [] keyword = "fenxi" -> <<"yanjiu", "diaocha", "tantao">>
      [] keyword = "xitong" -> <<"tixi", "kuangjia", "pingtai">>
      [] OTHER -> <<>>

RECURSIVE expanded_terms(_)
expanded_terms(query_keywords) ==
    IF query_keywords = <<>> THEN <<>>
    ELSE synonyms_map(Head(query_keywords)) \o expanded_terms(Tail(query_keywords))

\* _expand_query(query)
_expand_query(query) == Join(<<query>> \o expanded_terms(extract_tags(query)))

-----------------------------------------------------------------------------
(* EnhancedVectorStore: the keyword track                                  *)

\* mutant of _calculate_keyword_score: the sum is returned as it is
keyword_score_unclamped(content, query) ==
    LET query_words == {w \in cut(query) : LongWord(w) /\ w \notin stop_words}
        content_words == {w \in cut(content) : LongWord(w) /\ w \notin stop_words}
        intersection == query_words \cap content_words
    IN  IF query_words = {} \/ intersection = {} THEN 0
        ELSE (Cardinality(intersection) * One) \div Cardinality(query_words \cup content_words)
             + (((Cardinality({w \in query_words : Contains(content, w)}) * One)
                    \div Cardinality(query_words)) * 5) \div 10
             + (((Cardinality(intersection) * One) \div Cardinality(query_words)) * 3) \div 10

\* _calculate_keyword_score(content, query)
_calculate_keyword_score(content, query) ==
    LET query_words == {w \in cut(query) : LongWord(w) /\ w \notin stop_words}
        content_words == {w \in cut(content) : LongWord(w) /\ w \notin stop_words}
        intersection == query_words \cap content_words
        jaccard_score == (Cardinality(intersection) * One)
                           \div Cardinality(query_words \cup content_words)
        exact_matches == Cardinality({w \in query_words : Contains(content, w)})
        exact_match_bonus == (((exact_matches * One) \div Cardinality(query_words)) * 5) \div 10
        coverage_bonus ==
            (((Cardinality(intersection) * One) \div Cardinality(query_words)) * 3) \div 10
    IN  IF query_words = {} THEN 0
        ELSE IF intersection = {} THEN 0
        ELSE Min(jaccard_score + exact_match_bonus + coverage_bonus, One)

\* _calculate_enhanced_keyword_score(content, query, metadata)
_calculate_enhanced_keyword_score(content, query, metadata) ==
    LET base_score == _calculate_keyword_score(content, query)
        keywords == OrElse(metadata.keywords, <<>>)
        keyword_matches == Cardinality(Range(keywords) \cap cut(query))
        keyword_bonus == (((keyword_matches * One) \div Max(Len(keywords), 1)) * 3) \div 10
        summary == OrElse(metadata.summary, "")
        summary_bonus ==
            IF summary # "" THEN (_calculate_keyword_score(summary, query) * 2) \div 10 ELSE 0
        quality_score == OrElse(metadata.quality_score, Pct(50))
        quality_weight == Pct(80) + (quality_score * 4) \div 10
        final_score == ((base_score + keyword_bonus + summary_bonus) * quality_weight) \div One
    IN  Min(final_score, One)

\* the result a track builds for a stored entry
track_result(entry, score) ==
    [content |-> OrElse(entry.metadata.original_content, entry.document),
     metadata |-> entry.metadata,
     similarity_score |-> score,
     chunk_id |-> OrElse(entry.metadata.chunk_id, ""),
     chunk_index |-> OrElse(entry.metadata.chunk_index, 0)]

\* mutant of keyword_scan: the chunks that score 0 are kept
keyword_scan_unfiltered(colls, document_id, query, k) ==
    IF colls[document_id] = None THEN <<>>
    ELSE LET all_docs == colls[document_id][1]
             scored == [i \in DOMAIN all_docs |->
                          track_result(all_docs[i],
                              _calculate_enhanced_keyword_score(
                                  OrElse(all_docs[i].metadata.original_content,
                                         all_docs[i].document),
                                  query, all_docs[i].metadata))]
         IN  IF all_docs = <<>> THEN <<>> ELSE Take(sort_desc(scored), k)

\* the try block of _enhanced_keyword_search when nothing raises
keyword_scan(colls, document_id, query, k) ==
    IF colls[document_id] = None THEN <<>>
    ELSE LET all_docs == colls[document_id][1]
             scored == [i \in DOMAIN all_docs |->
                          track_result(all_docs[i],
                              _calculate_enhanced_keyword_score(
                                  OrElse(all_docs[i].metadata.original_content,
                                         all_docs[i].document),
                                  query, all_docs[i].metadata))]
             results == SelectSeq(scored, LAMBDA r : r.similarity_score > 0)
         IN  IF all_docs = <<>> THEN <<>> ELSE Take(sort_desc(results), k)

\* mutant of _enhanced_keyword_search: the results gathered are returned
\* although the track raised
keyword_search_uncaught(colls, document_id, query, k, raises) ==
    keyword_scan(colls, document_id, query, k)

\* _enhanced_keyword_search(document_id, query, k); raises: an exception is
\* raised inside the try block (the client fails), which the except turns into []
_enhanced_keyword_search(colls, document_id, query, k, raises) ==
    IF raises THEN <<>> ELSE keyword_scan(colls, document_id, query, k)

-----------------------------------------------------------------------------
(* EnhancedVectorStore: the semantic track                                 *)

\* _extract_semantic_features(text), without char_types, which nothing reads
_extract_semantic_features(text) ==
    [keywords |-> Range(extract_tags(text)),
     length |-> TextLen(text),
     structure |-> structure_of(text)]

Abs(x) == IF x < 0 THEN -x ELSE x

\* _calculate_semantic_similarity(features1, features2)
_calculate_semantic_similarity(features1, features2) ==
    LET keywords1 == features1.keywords
        keywords2 == features2.keywords
        keyword_part ==
            IF keywords1 # {} /\ keywords2 # {}
            THEN (((Cardinality(keywords1 \cap keywords2) * One)
                      \div Cardinality(keywords1 \cup keywords2)) * 6) \div 10
            ELSE 0
        struct1 == features1.structure
        struct2 == features2.structure
        struct_matches == Cardinality({f \in DOMAIN struct1 : struct1[f] = struct2[f]})
        struct_part ==
            (((struct_matches * One) \div Max(Cardinality(DOMAIN struct1), 1)) * 2) \div 10
        len1 == features1.length
        len2 == features2.length
        len_part ==
            IF len1 > 0 /\ len2 > 0
            THEN ((One - (Abs(len1 - len2) * One) \div Max(len1, len2)) * 2) \div 10
            ELSE 0
    IN  Min(keyword_part + struct_part + len_part, One)

\* _semantic_matching_search(document_id, query, k); raises as above
_semantic_matching_search(colls, document_id, query, k, raises) ==
    IF raises THEN <<>>
    ELSE IF colls[document_id] = None THEN <<>>
    ELSE LET all_docs == colls[document_id][1]
             query_features == _extract_semantic_features(query)
             scored == [i \in DOMAIN all_docs |->
                          track_result(all_docs[i],
                              _calculate_semantic_similarity(
                                  query_features,
                                  _extract_semantic_features(
                                      OrElse(all_docs[i].metadata.original_content,
                                             all_docs[i].document))))]
             results == SelectSeq(scored, LAMBDA r : r.similarity_score > Pct(10))
         IN  IF all_docs = <<>> THEN <<>> ELSE Take(sort_desc(results), k)

-----------------------------------------------------------------------------
(* EnhancedVectorStore: fusion, rerank and hybrid_search                   *)

\* mutant of normalize_scores: every score is divided by the highest score
normalize_scores_by_max(results) ==
    IF results = <<>> THEN results
    ELSE LET scores == {results[i].similarity_score : i \in DOMAIN results}
             max_score == CHOOSE s \in scores : \A o \in scores : o <= s
         IN  [i \in DOMAIN results |->
                 [results[i] EXCEPT !.similarity_score = (@ * One) \div max_score]]

\* normalize_scores(results) of _combine_multiple_search_results: it rewrites
\* the similarity_score of the dicts it is given
normalize_scores(results) ==
    IF results = <<>> THEN results
    ELSE LET scores == {results[i].similarity_score : i \in DOMAIN results}
             max_score == CHOOSE s \in scores : \A o \in scores : o <= s
             min_score == CHOOSE s \in scores : \A o \in scores : s <= o
         IN  IF max_score = min_score
             THEN [i \in DOMAIN results |-> [results[i] EXCEPT !.similarity_score = One]]
             ELSE [i \in DOMAIN results |->
                     [results[i] EXCEPT !.similarity_score =
                         ((@ - min_score) * One) \div (max_score - min_score)]]

\* {**result, 'vector_score': v, 'keyword_score': kw, 'semantic_score': sem}
fused_entry(result, v, kw, sem) ==
    [content |-> result.content, metadata |-> result.metadata,
     similarity_score |-> result.similarity_score,
     chunk_id |-> result.chunk_id, chunk_index |-> result.chunk_index,
     vector_score |-> v, keyword_score |-> kw, semantic_score |-> sem]

RECURSIVE add_vector_results(_, _)
add_vector_results(content_map, results) ==
    IF results = <<>> THEN content_map
    ELSE LET result == Head(results)
         IN  add_vector_results(
                 DictPut(content_map, result.content,
                         fused_entry(result, result.similarity_score, 0, 0)),
                 Tail(results))

RECURSIVE add_keyword_results(_, _)
add_keyword_results(content_map, results) ==
    IF results = <<>> THEN content_map
    ELSE LET result == Head(results)
             content == result.content
         IN  add_keyword_results(
                 IF DictHas(content_map, content)
                 THEN DictPut(content_map, content,
                              [DictGet(content_map, content)[1]
                                 EXCEPT !.keyword_score = result.similarity_score])
                 ELSE DictPut(content_map, content,
                              fused_entry(result, 0, result.similarity_score, 0)),
                 Tail(results))

RECURSIVE add_semantic_results(_, _)
add_semantic_results(content_map, results) ==
    IF results = <<>> THEN content_map
    ELSE LET result == Head(results)
             content == result.content
         IN  add_semantic_results(
                 IF DictHas(content_map, content)
                 THEN DictPut(content_map, content,
                              [DictGet(content_map, content)[1]
                                 EXCEPT !.semantic_score = result.similarity_score])
                 ELSE DictPut(content_map, content,
                              fused_entry(result, 0, 0, result.similarity_score)),
                 Tail(results))

\* content_map of _combine_multiple_search_results, before the scores are combined
content_map_of(vector_results, keyword_results, semantic_results) ==
    add_semantic_results(
        add_keyword_results(
            add_vector_results(<<>>, normalize_scores(vector_results)),
            normalize_scores(keyword_results)),
        normalize_scores(semantic_results))

\* mutant of combined_score: the vector term weighs the distance from the top
combined_score_inverted(result, alpha) ==
    (alpha * (One - result.vector_score)) \div 100
    + ((100 - alpha) * 6 * result.keyword_score) \div 1000
    + ((100 - alpha) * 4 * result.semantic_score) \div 1000

\* mutant of combined_score: the weights of the two tracks are exchanged
combined_score_swapped(result, alpha) ==
    (alpha * result.vector_score) \div 100
    + ((100 - alpha) * 4 * result.keyword_score) \div 1000
    + ((100 - alpha) * 6 * result.semantic_score) \div 1000

\* combined_score, alpha in hundredths
combined_score(result, alpha) ==
    (alpha * result.vector_score) \div 100
    + ((100 - alpha) * 6 * result.keyword_score) \div 1000
    + ((100 - alpha) * 4 * result.semantic_score) \div 1000

\* _combine_multiple_search_results(vector_results, keyword_results, semantic_results, alpha)
_combine_multiple_search_results(vector_results, keyword_results, semantic_results, alpha) ==
    LET content_map == content_map_of(vector_results, keyword_results, semantic_results)
    IN  sort_desc([i \in DOMAIN content_map |->
            [content_map[i].v EXCEPT !.similarity_score = combined_score(content_map[i].v, alpha)]])

\* length_preference of _rerank_results
length_preference(content_length, query_length) ==
    IF query_length < 20
    THEN (IF content_length > 1000 THEN Pct(90) ELSE One)
    ELSE IF query_length > 50
    THEN (IF content_length < 200 THEN Pct(90) ELSE One)
    ELSE One

\* adjusted_score of _rerank_results
adjusted_score(result, query) ==
    LET quality_score == OrElse(result.metadata.quality_score, Pct(50))
    IN  (result.similarity_score * 7) \div 10
        + (quality_score * 2) \div 10
        + (length_preference(TextLen(result.content), TextLen(query)) * 1) \div 10

\* mutant of _rerank_results: of two results with equal final scores the later
\* comes first
_rerank_results_unstable(results, query) ==
    sort_desc([i \in DOMAIN results |->
        [results[Len(results) + 1 - i] EXCEPT
            !.similarity_score = adjusted_score(results[Len(results) + 1 - i], query)]])

\* _rerank_results(results, query); final_score is the new similarity_score
_rerank_results(results, query) ==
    sort_desc([i \in DOMAIN results |->
        [results[i] EXCEPT !.similarity_score = adjusted_score(results[i], query)]])

\* mutant of top_k: the list is returned whole
whole_list(results, k) == results

\* reranked_results[:k]
top_k(results, k) == Take(results, k)

\* the only element of a set of one element
Only(S) == CHOOSE x \in S : TRUE

\* the except branch of hybrid_search: the cached vector search for the
\* original query and k
hybrid_fallback(c, colls, document_id, query, k, t, step2_searches, tracks) ==
    Only({[results |-> fallback.results, cache |-> fallback.cache,
           searches |-> step2_searches + fallback.searches,
           fallback_searches |-> fallback.searches,
           path |-> "fallback", tracks |-> tracks] :
          fallback \in {search_similar_chunks_with_cache(c, colls, document_id, query, k, t)}})

\* the try block of hybrid_search after the three tracks have returned
hybrid_fuse(c, colls, document_id, query, k, alpha, t, step2_key, step2_searches, tracks) ==
    LET \* vector_results.copy() is a shallow copy: the dicts normalize_scores
        \* rewrites are the dicts of the list the cache holds
        rewritten ==
            IF DictHas(c.mc, step2_key)
            THEN [c EXCEPT !.mc = DictPut(@, step2_key, normalize_scores(tracks.vector_results))]
            ELSE c
        type_error ==
            /\ alpha = None
            /\ (tracks.vector_results # <<>> \/ tracks.keyword_results # <<>>
                   \/ tracks.semantic_results # <<>>)
    IN  IF type_error
        THEN hybrid_fallback(rewritten, colls, document_id, query, k, t, step2_searches, tracks)
        ELSE [results |->
                 top_k(_rerank_results(
                           _combine_multiple_search_results(
                               tracks.vector_results, tracks.keyword_results,
                               tracks.semantic_results, OrElse(alpha, 0)),
                           query), k),
              cache |-> rewritten,
              searches |-> step2_searches,
              fallback_searches |-> 0,
              path |-> "normal", tracks |-> tracks]

\* hybrid_search(document_id, query, k, alpha) on the cache c at time t.
\* alpha is None for an alpha that is no number: combined_score then raises a
\* TypeError for the first entry of content_map, inside the try block.
\* raises names the tracks whose client calls fail.
hybrid_search(c, colls, document_id, query, k, alpha, raises, t) ==
    Only({hybrid_fuse(step2.cache, colls, document_id, query, k, alpha, t,
                      search_cache_key(document_id, expanded_query, k * 2),
                      step2.searches,
                      [vector_results |-> step2.results,
                       keyword_results |-> keyword_results,
                       semantic_results |-> semantic_results]) :
          <<expanded_query, step2, keyword_results, semantic_results>> \in
              {<<e, search_similar_chunks_with_cache(c, colls, document_id, e, k * 2, t),
                 _enhanced_keyword_search(colls, document_id, query, k * 2, "keyword" \in raises),
                 _semantic_matching_search(colls, document_id, query, k * 2, "semantic" \in raises)>> :
               e \in {_expand_query(query)}}})

-----------------------------------------------------------------------------
(* The calls of the vector store.                                          *)

SearchRet(op, document_id, query, k, r) ==
    [op |-> op, key |-> search_cache_key(document_id, query, k), value |-> None,
     document_id |-> document_id, query |-> query, k |-> k,
     result |-> r.results, searches |-> r.searches,
     \* what the cache held under the call's key when the call was made
     cached |-> get(memory_cache, search_cache_key(document_id, query, k)),
     existed |-> collections[document_id] # None,
     chunks |-> IF collections[document_id] = None THEN 0
                ELSE Len(collections[document_id][1])]

StoreRet(op, document_id) ==
    [op |-> op, key |-> "", value |-> None, document_id |-> document_id, result |-> TRUE]

CreateCollection(document_id) ==
    /\ collections' = create_document_collection(collections, document_id)
    /\ UNCHANGED <<memory_cache, cache_timestamps, now>>
    /\ UNCHANGED <<threads, ingestion>>
    /\ distinct_sets' = Taint
    /\ ret' = StoreRet("create_document_collection", document_id)

AddChunks(document_id) ==
    /\ collections' = add_document_chunks(collections, document_id, DocChunks)
    /\ UNCHANGED <<memory_cache, cache_timestamps, now>>
    /\ UNCHANGED <<threads, ingestion>>
    /\ distinct_sets' = Taint
    /\ ret' = StoreRet("add_document_chunks", document_id)

AddChunksEnhanced(document_id) ==
    /\ collections' = add_document_chunks_enhanced(collections, document_id, DocChunks)
    /\ UNCHANGED <<memory_cache, cache_timestamps, now>>
    /\ UNCHANGED <<threads, ingestion>>
    /\ distinct_sets' = Taint
    /\ ret' = StoreRet("add_document_chunks_enhanced", document_id)

DeleteCollection(document_id) ==
    /\ collections' = delete_document_collection(collections, document_id)
    /\ UNCHANGED <<memory_cache, cache_timestamps, now>>
    /\ UNCHANGED <<threads, ingestion>>
    /\ distinct_sets' = Taint
    /\ ret' = StoreRet("delete_document_collection", document_id)

SearchWithCache(document_id, query, k) ==
    \E r \in {search_similar_chunks_with_cache(Cache, collections, document_id, query, k, now)} :
        /\ Install(r.cache)
        /\ UNCHANGED <<now, collections>>
        /\ UNCHANGED <<threads, ingestion>>
        /\ distinct_sets' = Taint
        /\ ret' = SearchRet("search_similar_chunks_with_cache", document_id, query, k, r)

\* alpha, in hundredths: 0.0, the callers' 0.7, and a value that is no number
Alphas == {Some(0), Some(70), None}

TrackFailures == SUBSET {"keyword", "semantic"}

HybridSearch(document_id, query, k, alpha, raises) ==
    \E r \in {hybrid_search(Cache, collections, document_id, query, k, alpha, raises, now)} :
        /\ Install(r.cache)
        /\ UNCHANGED <<now, collections>>
        /\ UNCHANGED <<threads, ingestion>>
        /\ distinct_sets' = Taint
        /\ ret' = [op |-> "hybrid_search",
                   key |-> search_cache_key(document_id, _expand_query(query), k * 2),
                   value |-> None,
                   document_id |-> document_id, query |-> query, k |-> k,
                   alpha |-> alpha, raises |-> raises,
                   result |-> r.results,
                   searches |-> r.searches, fallback_searches |-> r.fallback_searches,
                   path |-> r.path, tracks |-> r.tracks,
                   existed |-> collections[document_id] # None,
                   chunks |-> IF collections[document_id] = None THEN 0
                              ELSE Len(collections[document_id][1])]

Init ==
    /\ memory_cache = <<>>
    /\ cache_timestamps = <<>>
    /\ now = 0
    /\ collections = [d \in Docs |-> None]
    /\ distinct_sets = [pure |-> TRUE, sets |-> <<>>]
    /\ ret = [op |-> "init", key |-> "", value |-> None]
    /\ threads = [t \in Threads |-> Idle]
    /\ documents = [d \in DocIds |-> None]
    /\ processing = {}
    /\ tasks = <<>>
    /\ poller = "pending"

Next ==
    \/ \E key \in CacheKeys, value \in CacheValues, expire \in Expires :
          CacheSet(key, value, expire)
    \/ \E key \in CacheKeys : CacheGet(key)
    \/ \E key \in CacheKeys : CacheDelete(key)
    \/ CacheClearExpired
    \/ Tick

Spec == Init /\ [][Next]_vars

NextSearch ==
    \/ \E d \in Docs : CreateCollection(d)
    \/ \E d \in Docs : AddChunks(d)
    \/ \E d \in Docs : AddChunksEnhanced(d)
    \/ \E d \in Docs : DeleteCollection(d)
    \/ \E d \in Docs, q \in Queries, k \in Ks : SearchWithCache(d, q, k)
    \/ \E d \in Docs, q \in Queries, k \in Ks, alpha \in Alphas, raises \in TrackFailures :
          HybridSearch(d, q, k, alpha, raises)

SpecSearch == Init /\ [][NextSearch]_vars

-----------------------------------------------------------------------------
(* The keyword track as a function of the collection, the query and the    *)
(* limit.                                                                  *)

\* the texts _calculate_keyword_score is applied to: the query, the chunks, a
\* summary, a text of stop words and single characters only, the empty text
ScoredTexts ==
    {Q1, "tianqi", "jieguo", "dehe", ""} \cup {DocChunks[i].content : i \in DOMAIN DocChunks}

\* the limits: hybrid_search passes 2k; with 1 the list of the model's chunks
\* that match is cut
KeywordLimits == {1} \cup {2 * k : k \in Ks}

\* _enhanced_keyword_search(document_id, query, k)
KeywordSearch(document_id, query, k, raises) ==
    /\ UNCHANGED <<memory_cache, cache_timestamps, now, collections, threads, ingestion>>
    /\ distinct_sets' = Taint
    /\ ret' = [op |-> "_enhanced_keyword_search", key |-> "", value |-> None,
               document_id |-> document_id, query |-> query, k |-> k, raises |-> raises,
               all_docs |-> IF collections[document_id] = None THEN <<>>
                            ELSE collections[document_id][1],
               result |-> _enhanced_keyword_search(collections, document_id, query, k, raises)]

NextKeyword ==
    \/ \E d \in Docs : CreateCollection(d)
    \/ \E d \in Docs : AddChunks(d)
    \/ \E d \in Docs : AddChunksEnhanced(d)
    \/ \E d \in Docs : DeleteCollection(d)
    \/ \E d \in Docs, query \in ScoredTexts, k \in KeywordLimits, raises \in BOOLEAN :
          KeywordSearch(d, query, k, raises)

SpecKeyword == Init /\ [][NextKeyword]_vars

-----------------------------------------------------------------------------
(* Steps 5 to 7 of hybrid_search as a function of the three result lists.  *)

\* the result dict search_similar_chunks and the tracks build for a chunk
\* that add_document_chunks stored
result_of(chunk, score) == track_result(plain_entry(chunk), score)

\* distances the vector store reports
VectorScores == {Pct(30), Pct(75), Pct(120)}

\* scores a track reports: they are positive and at most 1
TrackScores == {Pct(40), Pct(80)}

DistinctChunks(results) ==
    \A i, j \in DOMAIN results : i # j => results[i].chunk_id # results[j].chunk_id

\* the lists of at most n results for distinct chunks of the document
ResultLists(scores, n) ==
    {results \in UNION {[1..m -> {result_of(DocChunks[c], sc) : c \in DOMAIN DocChunks, sc \in scores}]
                           : m \in 0..n} :
        DistinctChunks(results)}

\* what search_similar_chunks can return: nearest first
VectorResultLists ==
    {results \in ResultLists(VectorScores, Len(DocChunks)) :
        \A i \in DOMAIN results : \A j \in DOMAIN results :
            i < j => results[i].similarity_score <= results[j].similarity_score}

\* what _enhanced_keyword_search can return: best first
KeywordResultLists ==
    {results \in ResultLists(TrackScores, Len(DocChunks) - 2) :
        \A i \in DOMAIN results : \A j \in DOMAIN results :
            i < j => results[i].similarity_score >= results[j].similarity_score}

\* what _semantic_matching_search can return
SemanticResultLists == ResultLists({Pct(80)}, Len(DocChunks) - 2)

\* alpha, in hundredths
FusionAlphas == {0, 70, 100}

\* hybrid_search from the fusion on, for the lists its first steps returned;
\* a function of its arguments, applied once
Fuse(vector_results, keyword_results, semantic_results, alpha, k) ==
    /\ ret.op = "init"
    /\ UNCHANGED <<memory_cache, cache_timestamps, now, collections>>
    /\ UNCHANGED <<threads, ingestion>>
    /\ distinct_sets' = Taint
    /\ ret' = [op |-> "fuse", key |-> "", value |-> None,
               vector_results |-> vector_results,
               keyword_results |-> keyword_results,
               semantic_results |-> semantic_results,
               alpha |-> alpha, k |-> k,
               normalized |-> [vector |-> normalize_scores(vector_results),
                               keyword |-> normalize_scores(keyword_results),
                               semantic |-> normalize_scores(semantic_results)],
               content_map |-> content_map_of(vector_results, keyword_results,
                                              semantic_results),
               combined |-> _combine_multiple_search_results(
                                vector_results, keyword_results, semantic_results, alpha),
               result |-> top_k(_rerank_results(
                                    _combine_multiple_search_results(
                                        vector_results, keyword_results,
                                        semantic_results, alpha),
                                    Q1), k)]

\* _calculate_keyword_score as a function of its arguments, applied once
KeywordScore(content, query) ==
    /\ ret.op = "init"
    /\ UNCHANGED <<memory_cache, cache_timestamps, now, collections, threads, ingestion>>
    /\ distinct_sets' = Taint
    /\ ret' = [op |-> "_calculate_keyword_score", key |-> "", value |-> None,
               content |-> content, query |-> query,
               result |-> _calculate_keyword_score(content, query)]

NextFusion ==
    \/ \E content \in ScoredTexts, query \in ScoredTexts : KeywordScore(content, query)
    \/ \E vector_results \in VectorResultLists, keyword_results \in KeywordResultLists,
       semantic_results \in SemanticResultLists, alpha \in FusionAlphas, k \in Ks :
        Fuse(vector_results, keyword_results, semantic_results, alpha, k)

SpecFusion == Init /\ [][NextFusion]_vars

-----------------------------------------------------------------------------
(* DocumentAnalysisAgent: the enhanced question answering                  *)

\* "是"
ShortAnswer == "shi"

\* "机器学习方法是一种分析数据的方法，学习由机器完成。"
FullAnswer == "jiqixuexifangfashiyizhongfenxishujudefangfa,xuexiyoujiqiwancheng."

\* the answer of _generate_basic_answer when the model cannot be called:
\* "抱歉，生成回答时遇到技术问题，请稍后重试。"
ApologyAnswer == "baoqian,shengchenghuidashiyudaojishuwenti,qingshaohouzhongshi."

\* "抱歉，在该文档中未找到与您问题相关的内容。"
NotFoundAnswer == "baoqian,zaigaiwendangzhongweizhaodaoyuninwentixiangguandeneirong."

\* "处理问题时发生错误，请稍后重试。"
ErrorAnswer == "chuliwentishifashengcuowu,qingshaohouzhongshi."

\* what the language model can answer: one character, a sentence about the
\* question, a chunk quoted whole, a text without a sentence
Answers == {ShortAnswer, FullAnswer, Chunk3.content, EnhancedText1}

\* len(answer.strip()): the model's answers have no outer white space
strip_len(answer) ==
    CASE answer = ShortAnswer -> 1
      [] answer = FullAnswer -> 25
      [] answer = ApologyAnswer -> 21
      [] OTHER -> TextLen(answer)

\* any(punct in answer for punct in ['。', '！', '？', '.', '!', '?'])
has_sentence_end(answer) ==
    answer \in {FullAnswer, ApologyAnswer, Chunk3.content, EnhancedText3}

\* set(jieba.cut(answer.lower()))
answer_cut(answer) ==
    CASE answer = ShortAnswer -> {"shi"}
      [] answer = FullAnswer ->
             {"jiqi", "xuexi", "fangfa", "shi", "yizhong", "fenxi", "shuju", "de", ",",
              "you2", "wancheng", "."}
      [] answer = ApologyAnswer ->
             {"baoqian", ",", "shengcheng", "huida", "shi2", "yudao", "jishu", "wenti",
              "qing", "shaohou", "zhongshi", "."}
      [] OTHER -> cut(answer)

\* stop_words of _evaluate_answer_completeness
completeness_stop_words ==
    {"de", "le", "zai", "shi", "wo", "you", "he", "jiu", "bu", "ren", "dou", "yi", "yige"}

\* _evaluate_answer_completeness(answer, question); raises: an exception is
\* raised inside the try block, which the except turns into 0.5
_evaluate_answer_completeness(answer, question, raises) ==
    LET question_words == cut(question) \ completeness_stop_words
        answer_words == answer_cut(answer) \ completeness_stop_words
        with_sentence == Pct(50) + (IF has_sentence_end(answer) THEN Pct(20) ELSE 0)
        word_overlap ==
            (Cardinality(question_words \cap answer_words) * One)
                \div Cardinality(question_words)
        structure_score ==
            IF question_words # {} /\ answer_words # {}
            THEN with_sentence + (word_overlap * 3) \div 10
            ELSE with_sentence
    IN  IF raises THEN Pct(50)
        ELSE IF strip_len(answer) < 20 THEN Pct(20)
        ELSE Min(structure_score, One)

\* round(x, 3): to the nearest thousandth, a tie to the even one
round3(x) ==
    LET thousandths == x \div (One \div 1000)
        rest == x % (One \div 1000)
        half == (One \div 1000) \div 2
    IN  IF rest > half \/ (rest = half /\ thousandths % 2 = 1)
        THEN (thousandths + 1) * (One \div 1000)
        ELSE thousandths * (One \div 1000)

\* sum(similarity_score * quality_score for result in search_results)
RECURSIVE quality_weighted_sum(_)
quality_weighted_sum(search_results) ==
    IF search_results = <<>> THEN 0
    ELSE (Head(search_results).similarity_score
             * OrElse(Head(search_results).metadata.quality_score, Pct(50))) \div One
         + quality_weighted_sum(Tail(search_results))

\* mutant of _calculate_enhanced_confidence: the mean of the similarity scores
\* stands for the quality weighted mean
confidence_unweighted(search_results, question, answer, raises) ==
    IF search_results = <<>> THEN 0
    ELSE LET scores == {search_results[i].similarity_score : i \in DOMAIN search_results}
             base_confidence == CHOOSE s \in scores : \A o \in scores : o <= s
             mean == quality_weighted_sum(
                         [i \in DOMAIN search_results |->
                            [search_results[i] EXCEPT !.metadata.quality_score = Some(One)]])
                       \div Len(search_results)
             coverage_confidence == Min((Len(search_results) * One) \div 3, One)
             answer_completeness == _evaluate_answer_completeness(answer, question, raises)
         IN  round3(Min((base_confidence * 3) \div 10 + (mean * 3) \div 10
                        + (coverage_confidence * 2) \div 10
                        + (answer_completeness * 2) \div 10, One))

\* _calculate_enhanced_confidence(search_results, question, answer)
_calculate_enhanced_confidence(search_results, question, answer, raises) ==
    IF search_results = <<>> THEN 0
    ELSE LET scores == {search_results[i].similarity_score : i \in DOMAIN search_results}
             base_confidence == CHOOSE s \in scores : \A o \in scores : o <= s
             quality_weighted_confidence ==
                 quality_weighted_sum(search_results) \div Len(search_results)
             coverage_confidence == Min((Len(search_results) * One) \div 3, One)
             answer_completeness == _evaluate_answer_completeness(answer, question, raises)
             enhanced_confidence ==
                 (base_confidence * 3) \div 10
                 + (quality_weighted_confidence * 3) \div 10
                 + (coverage_confidence * 2) \div 10
                 + (answer_completeness * 2) \div 10
         IN  round3(Min(enhanced_confidence, One))

\* _prepare_enhanced_sources(search_results), without the previews
_prepare_enhanced_sources(search_results) ==
    [i \in DOMAIN search_results |->
        [chunk_id |-> search_results[i].chunk_id,
         chunk_index |-> search_results[i].chunk_index,
         similarity_score |-> search_results[i].similarity_score,
         quality_score |-> OrElse(search_results[i].metadata.quality_score, Pct(50)),
         keywords |-> OrElse(search_results[i].metadata.keywords, <<>>),
         summary |-> OrElse(search_results[i].metadata.summary, "")]]

\* the steps of answer_question_enhanced that can fail: the vector store
\* (retrieval), _build_enhanced_context, every call of the language model,
\* _calculate_enhanced_confidence, _evaluate_answer_quality
FailurePoints == {"retrieval", "context", "llm", "confidence", "quality"}

\* no step fails, or one does
Failures == {{}} \cup {{f} : f \in FailurePoints}

\* what _evaluate_answer_quality returns when nothing raises inside it
AnswerQualities == {Pct(60), One}

\* str(e) of the exception a step raised
exception_text(step) == "exception in " \o step

\* the dict returned by the except branch of answer_question_enhanced
failure_response(step) ==
    [answer |-> ErrorAnswer, confidence |-> 0, sources |-> <<>>, quality_score |-> 0,
     success |-> FALSE, error |-> Some(exception_text(step))]

\* the dict returned for an empty result list
not_found_response ==
    [answer |-> NotFoundAnswer, confidence |-> 0, sources |-> <<>>, quality_score |-> 0,
     success |-> TRUE, error |-> None]

\* answer_question_enhanced(document_id, question, max_results) on the cache c at
\* time t: the response and the cache afterwards.  llm_answer is what the
\* language model answers, quality what _evaluate_answer_quality computes, fails
\* the steps that fail.  A failing vector store makes search_similar_chunks and
\* both tracks return []: hybrid_search does not raise.  A failing language
\* model makes _generate_enhanced_answer return the apology of
\* _generate_basic_answer, a failure inside _evaluate_answer_quality makes it
\* return 0.5; a failure of the other steps reaches the except branch.
answer_question_enhanced(c, colls, document_id, question, max_results, llm_answer, quality, fails, t) ==
    LET found == hybrid_search(c,
                     IF "retrieval" \in fails THEN [colls EXCEPT ![document_id] = None]
                     ELSE colls,
                     document_id, question, max_results, Some(70),
                     IF "retrieval" \in fails THEN {"keyword", "semantic"} ELSE {}, t)
        search_results == found.results
        answer == IF "llm" \in fails THEN ApologyAnswer ELSE llm_answer
    IN  [cache |-> found.cache,
         search_results |-> search_results,
         response |->
            IF search_results = <<>> THEN not_found_response
            ELSE IF "context" \in fails THEN failure_response("_build_enhanced_context")
            ELSE IF "confidence" \in fails
            THEN failure_response("_calculate_enhanced_confidence")
            ELSE [answer |-> answer,
                  confidence |-> _calculate_enhanced_confidence(search_results, question,
                                                                answer, FALSE),
                  sources |-> _prepare_enhanced_sources(search_results),
                  quality_score |-> IF "quality" \in fails THEN Pct(50) ELSE quality,
                  success |-> TRUE,
                  error |-> None]]

AnswerQuestionEnhanced(document_id, question, max_results, llm_answer, quality, fails) ==
    \E r \in {answer_question_enhanced(Cache, collections, document_id, question,
                                       max_results, llm_answer, quality, fails, now)} :
        /\ Install(r.cache)
        /\ UNCHANGED <<now, collections, threads, ingestion>>
        /\ distinct_sets' = Taint
        /\ ret' = [op |-> "answer_question_enhanced", key |-> "", value |-> None,
                   document_id |-> document_id, question |-> question,
                   max_results |-> max_results, fails |-> fails,
                   search_results |-> r.search_results,
                   response |-> r.response]

\* similarity scores of the results handed to _calculate_enhanced_confidence
ConfidenceScores == {0, Pct(50), One}

\* lists of up to one result more than the document has chunks, best first, for
\* chunks stored by add_document_chunks or by add_document_chunks_enhanced
ConfidenceResultLists ==
    UNION {{[i \in 1..n |->
                track_result(IF enhanced
                             THEN enhanced_entry(DocChunks[((i - 1) % Len(DocChunks)) + 1])
                             ELSE plain_entry(DocChunks[((i - 1) % Len(DocChunks)) + 1]),
                             scores[i])] :
              scores \in {f \in [1..n -> ConfidenceScores] :
                             \A i \in 1..n : \A j \in 1..n : i < j => f[i] >= f[j]},
              enhanced \in BOOLEAN}
           : n \in 0..(Len(DocChunks) + 1)}

\* _calculate_enhanced_confidence as a function of its arguments, applied once
Confidence(search_results, question, answer, raises) ==
    /\ ret.op = "init"
    /\ UNCHANGED <<memory_cache, cache_timestamps, now, collections, threads, ingestion>>
    /\ distinct_sets' = Taint
    /\ ret' = [op |-> "_calculate_enhanced_confidence", key |-> "", value |-> None,
               search_results |-> search_results, question |-> question,
               answer |-> answer, raises |-> raises,
               answer_completeness |->
                   _evaluate_answer_completeness(answer, question, raises),
               result |-> _calculate_enhanced_confidence(search_results, question,
                                                         answer, raises)]

\* the agent is built on a document that is not stored, or stored by either
\* ingestion
InitAgent ==
    /\ memory_cache = <<>>
    /\ cache_timestamps = <<>>
    /\ now = 0
    /\ collections \in {[d \in Docs |-> None],
                        add_document_chunks([d \in Docs |-> None], "doc1", DocChunks),
                        add_document_chunks_enhanced([d \in Docs |-> None], "doc1", DocChunks)}
    /\ distinct_sets = Taint
    /\ ret = [op |-> "init", key |-> "", value |-> None]
    /\ threads = [t \in Threads |-> Idle]
    /\ documents = [d \in DocIds |-> None]
    /\ processing = {}
    /\ tasks = <<>>
    /\ poller = "pending"

NextAgent ==
    \E d \in Docs, q \in Queries, k \in Ks, llm_answer \in Answers,
       quality \in AnswerQualities, fails \in Failures :
        AnswerQuestionEnhanced(d, q, k, llm_answer, quality, fails)

SpecAgent == InitAgent /\ [][NextAgent]_vars

NextConfidence ==
    \E search_results \in ConfidenceResultLists, q \in Queries,
       answer \in Answers \cup {ApologyAnswer}, raises \in BOOLEAN :
        Confidence(search_results, q, answer, raises)

SpecConfidence == Init /\ [][NextConfidence]_vars

-----------------------------------------------------------------------------
(* CacheManager called by concurrent threads.  The class takes no lock, so *)
(* a thread can be preempted between any two statements of set and delete; *)
(* a statement that reads or writes one dict is one step.  pc names the    *)
(* line of cache_manager.py the thread executes next.                      *)

\* the key thread t stores: a key the cache does not hold
NewKey(t) == "key" \o ToString(memory_cache_maxsize + t)

\* the caches the threads start on: the first n keys, stored at time 0
FilledCache(n) ==
    [mc |-> [i \in 1..n |-> [k |-> "key" \o ToString(i), v |-> Some(i)]],
     ts |-> [i \in 1..n |-> [k |-> "key" \o ToString(i), v |-> 0]]]

InitThreads ==
    /\ \E n \in 0..memory_cache_maxsize :
          /\ memory_cache = FilledCache(n).mc
          /\ cache_timestamps = FilledCache(n).ts
    /\ now = 0
    /\ collections = [d \in Docs |-> None]
    /\ distinct_sets = Taint
    /\ ret = [op |-> "init", key |-> "", value |-> None]
    /\ threads = [t \in Threads |-> Idle]
    /\ documents = [d \in DocIds |-> None]
    /\ processing = {}
    /\ tasks = <<>>
    /\ poller = "pending"

\* the thread moves to line pc
Goto(t, pc) == threads' = [threads EXCEPT ![t].pc = pc]

\* the thread returns result
Return(t, result) ==
    threads' = [threads EXCEPT ![t].pc = "done", ![t].result = Some(result)]

\* thread t calls set(key, value), delete(key) or get(key)
ThreadCall(t, op, key, value) ==
    /\ threads[t].pc = "idle"
    /\ threads' = [threads EXCEPT ![t] =
           [Idle EXCEPT !.op = op, !.key = key, !.value = value,
                        !.pc = CASE op = "set" -> "45" [] op = "delete" -> "62" [] OTHER -> "36",
                        !.full = Len(memory_cache) >= memory_cache_maxsize]]
    /\ UNCHANGED <<memory_cache, cache_timestamps, now, collections, distinct_sets, ret, ingestion>>

\* l.45: if len(self.memory_cache) >= self.memory_cache_maxsize
SetCheckFull(t) ==
    /\ threads[t].pc = "45"
    /\ Goto(t, IF Len(memory_cache) >= memory_cache_maxsize THEN "47" ELSE "52")
    /\ UNCHANGED <<memory_cache, cache_timestamps, now, collections, distinct_sets, ret, ingestion>>

\* l.47: oldest_key = next(iter(self.memory_cache)); StopIteration on the empty dict
SetPickOldest(t) ==
    /\ threads[t].pc = "47"
    /\ IF memory_cache = <<>>
       THEN Return(t, FALSE)
       ELSE threads' = [threads EXCEPT ![t].pc = "48", ![t].oldest_key = memory_cache[1].k]
    /\ UNCHANGED <<memory_cache, cache_timestamps, now, collections, distinct_sets, ret, ingestion>>

\* l.48: del self.memory_cache[oldest_key]; KeyError when the key is gone
SetEvictValue(t) ==
    /\ threads[t].pc = "48"
    /\ IF DictHas(memory_cache, threads[t].oldest_key)
       THEN /\ memory_cache' = DictDel(memory_cache, threads[t].oldest_key)
            /\ Goto(t, "49")
       ELSE /\ UNCHANGED memory_cache
            /\ Return(t, FALSE)
    /\ UNCHANGED <<cache_timestamps, now, collections, distinct_sets, ret, ingestion>>

\* l.49: if oldest_key in self.cache_timestamps
SetCheckStamp(t) ==
    /\ threads[t].pc = "49"
    /\ Goto(t, IF DictHas(cache_timestamps, threads[t].oldest_key) THEN "50" ELSE "52")
    /\ UNCHANGED <<memory_cache, cache_timestamps, now, collections, distinct_sets, ret, ingestion>>

\* l.50: del self.cache_timestamps[oldest_key]
SetEvictStamp(t) ==
    /\ threads[t].pc = "50"
    /\ IF DictHas(cache_timestamps, threads[t].oldest_key)
       THEN /\ cache_timestamps' = DictDel(cache_timestamps, threads[t].oldest_key)
            /\ Goto(t, "52")
       ELSE /\ UNCHANGED cache_timestamps
            /\ Return(t, FALSE)
    /\ UNCHANGED <<memory_cache, now, collections, distinct_sets, ret, ingestion>>

\* l.52: self.memory_cache[key] = value
SetStoreValue(t) ==
    /\ threads[t].pc = "52"
    /\ memory_cache' = DictPut(memory_cache, threads[t].key, threads[t].value)
    /\ Goto(t, "53")
    /\ UNCHANGED <<cache_timestamps, now, collections, distinct_sets, ret, ingestion>>

\* l.53-54: self.cache_timestamps[key] = datetime.now(); return True
SetStoreStamp(t) ==
    /\ threads[t].pc = "53"
    /\ cache_timestamps' = DictPut(cache_timestamps, threads[t].key, now)
    /\ Return(t, TRUE)
    /\ UNCHANGED <<memory_cache, now, collections, distinct_sets, ret, ingestion>>

\* l.62: if key in self.memory_cache
DeleteCheckValue(t) ==
    /\ threads[t].pc = "62"
    /\ Goto(t, IF DictHas(memory_cache, threads[t].key) THEN "63" ELSE "64")
    /\ UNCHANGED <<memory_cache, cache_timestamps, now, collections, distinct_sets, ret, ingestion>>

\* l.63: del self.memory_cache[key]
DeleteValue(t) ==
    /\ threads[t].pc = "63"
    /\ IF DictHas(memory_cache, threads[t].key)
       THEN /\ memory_cache' = DictDel(memory_cache, threads[t].key)
            /\ Goto(t, "64")
       ELSE /\ UNCHANGED memory_cache
            /\ Return(t, FALSE)
    /\ UNCHANGED <<cache_timestamps, now, collections, distinct_sets, ret, ingestion>>

\* l.64: if key in self.cache_timestamps
DeleteCheckStamp(t) ==
    /\ threads[t].pc = "64"
    /\ IF DictHas(cache_timestamps, threads[t].key) THEN Goto(t, "65") ELSE Return(t, TRUE)
    /\ UNCHANGED <<memory_cache, cache_timestamps, now, collections, distinct_sets, ret, ingestion>>

\* l.65-66: del self.cache_timestamps[key]; return True
DeleteStamp(t) ==
    /\ threads[t].pc = "65"
    /\ IF DictHas(cache_timestamps, threads[t].key)
       THEN /\ cache_timestamps' = DictDel(cache_timestamps, threads[t].key)
            /\ Return(t, TRUE)
       ELSE /\ UNCHANGED cache_timestamps
            /\ Return(t, FALSE)
    /\ UNCHANGED <<memory_cache, now, collections, distinct_sets, ret, ingestion>>

\* l.36: return self.memory_cache.get(key)
GetValue(t) ==
    /\ threads[t].pc = "36"
    /\ Return(t, get(memory_cache, threads[t].key))
    /\ UNCHANGED <<memory_cache, cache_timestamps, now, collections, distinct_sets, ret, ingestion>>

NextThreads ==
    \E t \in Threads :
        \/ ThreadCall(t, "set", NewKey(t), Some(memory_cache_maxsize + t))
        \/ \E key \in {FilledCache(1).mc[1].k, NewKey(1)} :
              ThreadCall(t, "delete", key, None) \/ ThreadCall(t, "get", key, None)
        \/ SetCheckFull(t) \/ SetPickOldest(t) \/ SetEvictValue(t) \/ SetCheckStamp(t)
        \/ SetEvictStamp(t) \/ SetStoreValue(t) \/ SetStoreStamp(t)
        \/ DeleteCheckValue(t) \/ DeleteValue(t) \/ DeleteCheckStamp(t) \/ DeleteStamp(t)
        \/ GetValue(t)

SpecThreads == InitThreads /\ [][NextThreads]_vars

-----------------------------------------------------------------------------
(* DocumentTaskProcessor.  Its coroutines contain no await between the     *)
(* query and the last commit, so on the event loop each of them runs as    *)
(* one step; the tasks it creates run, in the order of their creation,     *)
(* while start_polling is in asyncio.sleep.                                *)

\* Document.max_retries is 3 in database.py:120; the model runs the same code
\* with fewer retries
max_retries == 2

\* self.poll_interval, in seconds
poll_interval == 10

\* self.retry_interval is 300 in main.py:40; the model runs the same code with
\* an interval of two polls
retry_interval == 20

\* the row upload_document inserts.  last_retry_age is None while
\* last_retry_time is None and datetime.now() - last_retry_time otherwise,
\* counted up to the first value beyond retry_interval
new_document ==
    [status |-> "pending", retry_count |-> 0, max_retries |-> max_retries,
     last_retry_age |-> None]

\* the orders in which a query without ORDER BY can return the rows of ids
Orders(ids) ==
    {order \in [1..Cardinality(ids) -> ids] :
        \A i \in 1..Cardinality(ids) : \A j \in 1..Cardinality(ids) :
            i # j => order[i] # order[j]}

\* mutant of pending_docs: the completed documents are submitted again
pending_docs_with_completed(docs) ==
    {id \in DocIds : docs[id] # None /\ docs[id][1].status \in {"pending", "completed"}}

\* the filter of process_pending_documents
pending_docs(docs) ==
    {id \in DocIds : docs[id] # None /\ docs[id][1].status = "pending"}

\* the filter of process_failed_documents
failed_docs(docs) ==
    {id \in DocIds :
        /\ docs[id] # None
        /\ docs[id][1].status = "failed"
        /\ docs[id][1].retry_count < docs[id][1].max_retries
        /\ \/ docs[id][1].last_retry_age = None
           \/ docs[id][1].last_retry_age[1] > retry_interval}

\* the for loop of process_pending_documents over the rows docs, in the state
\* st = [documents, processing, tasks]; failing: the document whose db.commit()
\* raises, which ends the loop in the except branch after processing.add
RECURSIVE submit_pending(_, _, _)
submit_pending(st, docs, failing) ==
    IF docs = <<>> THEN st
    ELSE LET id == Head(docs)
         IN  IF id \in st.processing THEN submit_pending(st, Tail(docs), failing)
             ELSE IF failing = Some(id)
             THEN [st EXCEPT !.processing = @ \cup {id}]
             ELSE submit_pending(
                      [documents |-> [st.documents EXCEPT ![id] =
                                        Some([@[1] EXCEPT !.status = "processing"])],
                       processing |-> st.processing \cup {id},
                       tasks |-> Append(st.tasks, [document_id |-> id, is_retry |-> FALSE])],
                      Tail(docs), failing)

\* the for loop of process_failed_documents
RECURSIVE submit_failed(_, _, _)
submit_failed(st, docs, failing) ==
    IF docs = <<>> THEN st
    ELSE LET id == Head(docs)
         IN  IF id \in st.processing THEN submit_failed(st, Tail(docs), failing)
             ELSE IF failing = Some(id)
             THEN [st EXCEPT !.processing = @ \cup {id}]
             ELSE submit_failed(
                      [documents |-> [st.documents EXCEPT ![id] =
                                        Some([@[1] EXCEPT !.status = "processing",
                                                          !.retry_count = @ + 1,
                                                          !.last_retry_age = Some(0)])],
                       processing |-> st.processing \cup {id},
                       tasks |-> Append(st.tasks, [document_id |-> id, is_retry |-> TRUE])],
                      Tail(docs), failing)

\* the status process_single_document writes when the processing failed
failure_status(document) ==
    IF document.retry_count >= document.max_retries THEN "failed_permanently" ELSE "failed"

\* what process_document returns or raises
ProcessResults == {"success", "failure", "exception"}

\* the call of the vector store that fails in process_single_document:
\* create_document_collection and add_document_chunks catch their exceptions
\* and return False
StoreFailures == {"none", "create", "add"}

\* the two calls of the vector store in process_single_document; Chroma(...)
\* in add_document_chunks gets or creates the collection
index_document(colls, document_id, chunks, store) ==
    CASE store = "none" ->
             add_document_chunks(create_document_collection(colls, document_id),
                                 document_id, chunks)
      [] store = "create" -> add_document_chunks(colls, document_id, chunks)
      [] store = "add" -> create_document_collection(colls, document_id)

\* process_single_document(document_id, file_path, is_retry) in the state
\* st = [documents, collections, processing]
process_single_document(st, document_id, result, store) ==
    LET document == st.documents[document_id]
        finished(status) ==
            [st.documents EXCEPT ![document_id] = Some([@[1] EXCEPT !.status = status])]
    IN  IF document = None
        THEN [st EXCEPT !.processing = @ \ {document_id}]
        ELSE IF result = "success"
        THEN [documents |-> finished("completed"),
              collections |-> index_document(st.collections, document_id, DocChunks, store),
              processing |-> st.processing \ {document_id}]
        ELSE [documents |-> finished(failure_status(document[1])),
              collections |-> st.collections,
              processing |-> st.processing \ {document_id}]

\* asyncio.sleep(poll_interval) has passed
slept(docs) ==
    [id \in DocIds |->
        IF docs[id] # None /\ docs[id][1].last_retry_age # None
                           /\ docs[id][1].last_retry_age[1] <= retry_interval
        THEN Some([docs[id][1] EXCEPT !.last_retry_age = Some(@[1] + poll_interval)])
        ELSE docs[id]]

IngestRet(op) == [op |-> op, key |-> "", value |-> None]

\* upload_document: a new row with status "pending"
Upload(document_id) ==
    /\ poller = "sleep"
    /\ documents[document_id] = None
    /\ documents' = [documents EXCEPT ![document_id] = Some(new_document)]
    /\ ret' = IngestRet("upload_document")
    /\ UNCHANGED <<memory_cache, cache_timestamps, now, collections, distinct_sets, threads>>
    /\ UNCHANGED <<processing, tasks, poller>>

ProcessPendingDocuments(order, failing) ==
    /\ poller = "pending"
    /\ \E st \in {submit_pending([documents |-> documents, processing |-> processing,
                                   tasks |-> tasks],
                                  Take(order, 5), failing)} :
          /\ documents' = st.documents
          /\ processing' = st.processing
          /\ tasks' = st.tasks
    /\ poller' = "failed"
    /\ ret' = IngestRet("process_pending_documents")
    /\ UNCHANGED <<memory_cache, cache_timestamps, now, collections, distinct_sets, threads>>

ProcessFailedDocuments(order, failing) ==
    /\ poller = "failed"
    /\ \E st \in {submit_failed([documents |-> documents, processing |-> processing,
                                  tasks |-> tasks],
                                 Take(order, 3), failing)} :
          /\ documents' = st.documents
          /\ processing' = st.processing
          /\ tasks' = st.tasks
    /\ poller' = "sleep"
    /\ ret' = IngestRet("process_failed_documents")
    /\ UNCHANGED <<memory_cache, cache_timestamps, now, collections, distinct_sets, threads>>

\* the task that was created first runs
ProcessSingleDocument(result, store) ==
    /\ poller = "sleep"
    /\ tasks # <<>>
    /\ \E st \in {process_single_document(
                      [documents |-> documents, collections |-> collections,
                       processing |-> processing],
                      Head(tasks).document_id, result, store)} :
          /\ documents' = st.documents
          /\ collections' = st.collections
          /\ processing' = st.processing
    /\ tasks' = Tail(tasks)
    /\ ret' = [op |-> "process_single_document", key |-> "", value |-> None,
               document_id |-> Head(tasks).document_id, is_retry |-> Head(tasks).is_retry,
               result |-> result, store |-> store]
    /\ UNCHANGED <<memory_cache, cache_timestamps, now, distinct_sets, threads, poller>>

\* start_polling wakes up from asyncio.sleep: the tasks created before the
\* sleep have run by then
Sleep ==
    /\ poller = "sleep"
    /\ tasks = <<>>
    /\ documents' = slept(documents)
    /\ poller' = "pending"
    /\ ret' = IngestRet("start_polling")
    /\ UNCHANGED <<memory_cache, cache_timestamps, now, collections, distinct_sets, threads>>
    /\ UNCHANGED <<processing, tasks>>

InitIngest ==
    /\ memory_cache = <<>>
    /\ cache_timestamps = <<>>
    /\ now = 0
    /\ collections = [d \in DocIds |-> None]
    /\ distinct_sets = [pure |-> TRUE, sets |-> <<>>]
    /\ ret = [op |-> "init", key |-> "", value |-> None]
    /\ threads = [t \in Threads |-> Idle]
    /\ documents = [d \in DocIds |-> None]
    /\ processing = {}
    /\ tasks = <<>>
    /\ poller = "pending"

Poll ==
    \/ \E order \in Orders(pending_docs(documents)), failing \in {None} \cup {Some(d) : d \in DocIds} :
          ProcessPendingDocuments(order, failing)
    \/ \E order \in Orders(failed_docs(documents)), failing \in {None} \cup {Some(d) : d \in DocIds} :
          ProcessFailedDocuments(order, failing)
    \/ Sleep

RunTask == \E result \in ProcessResults, store \in StoreFailures : ProcessSingleDocument(result, store)

NextIngest ==
    \/ \E d \in DocIds : Upload(d)
    \/ Poll
    \/ RunTask

SpecIngest == InitIngest /\ [][NextIngest]_vars

\* the polling loop keeps running and every task that was created runs
SpecIngestFair == SpecIngest /\ WF_vars(Poll) /\ WF_vars(RunTask)

-----------------------------------------------------------------------------
(* Claims about the cache, checked under Spec.                             *)

\* C1: a get(k) that directly follows set(k, v), before v's TTL has run out,
\* returns exactly v, whatever the cache held before.
C1_RoundTrip ==
    (/\ ret.op = "get"
     /\ ret.stored # None
     /\ now - ret.stored[1].at <= ret.stored[1].expire)
    => ret.result = Some(ret.stored[1].value)

\* the round trip happened on a full cache, for a key that was already present
C1_Witness ==
    /\ ret.op = "get"
    /\ ret.stored # None
    /\ ret.stored[1].full
    /\ ret.stored[1].present
    /\ ret.result = Some(ret.stored[1].value)

\* C2: a get(k) made more than T seconds after set(k, v, expire=T) stamped the
\* entry is a miss, and the read leaves the entry in the cache.
C2_ExpireOnRead ==
    (/\ ret.op = "get"
     /\ ret.stored # None
     /\ now - ret.stored[1].at > ret.stored[1].expire)
    => (ret.result = None /\ DictHas(memory_cache, ret.key))

\* C3: after sets on memory_cache_maxsize + 1 pairwise distinct keys, made on
\* the empty cache, exactly the first key is gone and every other key still
\* yields its value.
C3_EvictsFirstInserted ==
    (distinct_sets.pure /\ Len(distinct_sets.sets) = memory_cache_maxsize + 1)
    => LET sets == distinct_sets.sets
       IN  /\ DictKeys(memory_cache) = {sets[i].k : i \in 2..Len(sets)}
           /\ get(memory_cache, sets[1].k) = None
           /\ \A i \in 2..Len(sets) : get(memory_cache, sets[i].k) = Some(sets[i].v)

C3_Witness ==
    /\ distinct_sets.pure
    /\ Len(distinct_sets.sets) = memory_cache_maxsize + 1
    /\ ret.op = "set"

\* C4: the cache never holds more than memory_cache_maxsize entries.
C4_BoundedSize == Len(memory_cache) <= memory_cache_maxsize

\* a set made on a full cache has returned
C4_Witness ==
    /\ ret.op = "set"
    /\ ret.full
    /\ ~ret.present
    /\ Len(memory_cache) = memory_cache_maxsize

-----------------------------------------------------------------------------
(* Claims about the cached and the hybrid search, checked under SpecSearch. *)

\* C5: a call of search_similar_chunks_with_cache whose arguments have a stored
\* result, the empty list included, returns the stored result and makes no
\* vector search.
C5_HitSuppressesSearch ==
    (ret.op = "search_similar_chunks_with_cache" /\ ret.cached # None)
    => (ret.searches = 0 /\ ret.result = ret.cached[1])

\* C6: hybrid_search returns at most k results, on the normal path and on the
\* fallback path.
C6_AtMostK ==
    ret.op = "hybrid_search" => Len(ret.result) <= ret.k

\* the fused list was longer than k and k results were returned
C6_Witness ==
    /\ ret.op = "hybrid_search"
    /\ ret.path = "normal"
    /\ Len(ret.tracks.vector_results) > ret.k
    /\ Len(ret.result) = ret.k

\* C7: every result hybrid_search returns has a similarity_score in [0, 1].
C7_ScoreBounds ==
    ret.op = "hybrid_search"
    => \A i \in DOMAIN ret.result :
           /\ 0 <= ret.result[i].similarity_score
           /\ ret.result[i].similarity_score <= One

C9_FallbackIdentity ==
    (ret.op = "hybrid_search" /\ ret.path = "fallback")
    => (ret.result = Take(ret.tracks.vector_results, ret.k) /\ ret.fallback_searches = 0)

\* C10: hybrid_search on a document whose collection is absent or holds no
\* chunks returns the empty list.
C10_AbsentOrEmpty ==
    (ret.op = "hybrid_search" /\ (~ret.existed \/ ret.chunks = 0))
    => ret.result = <<>>

-----------------------------------------------------------------------------
(* Claims about fusion and rerank, checked under SpecFusion.                *)

\* C11: with alpha = 1.0 the results hybrid_search returns are in the order of
\* the vector search: of two results the vector search returned, the one it
\* ranked first comes first, and no result the vector search did not return
\* comes before one it returned.
C11_VectorOrderAtAlphaOne ==
    (ret.op = "fuse" /\ ret.alpha = 100)
    => LET rank(r) == {j \in DOMAIN ret.vector_results :
                          ret.vector_results[j].chunk_id = r.chunk_id}
       IN  \A a \in DOMAIN ret.result : \A b \in DOMAIN ret.result :
               a < b =>
                   /\ rank(ret.result[b]) # {} => rank(ret.result[a]) # {}
                   /\ \A i \in rank(ret.result[a]) : \A j \in rank(ret.result[b]) : i < j

\* C12: for alpha > 0, raising the normalized vector score of a chunk of
\* content_map, its keyword and semantic scores unchanged, does not lower the
\* chunk's fused score.
C12_FusionMonotonic ==
    (ret.op = "fuse" /\ ret.alpha > 0)
    => \A i \in DOMAIN ret.content_map :
           \A higher \in {0, Pct(1), Pct(50), Pct(99), One} :
               higher > ret.content_map[i].v.vector_score
               => combined_score([ret.content_map[i].v EXCEPT !.vector_score = higher],
                                 ret.alpha)
                      >= combined_score(ret.content_map[i].v, ret.alpha)

\* a chunk with the lowest vector score that a track scored as well was fused
\* with the callers' alpha
C12_Witness ==
    /\ ret.op = "fuse"
    /\ ret.alpha = 70
    /\ \E i \in DOMAIN ret.content_map :
           /\ ret.content_map[i].v.vector_score = 0
           /\ ret.content_map[i].v.keyword_score > 0
           /\ ret.content_map[i].v.chunk_id \in
                  {ret.vector_results[j].chunk_id : j \in DOMAIN ret.vector_results}
           /\ combined_score([ret.content_map[i].v EXCEPT !.vector_score = One], ret.alpha)
                  > combined_score(ret.content_map[i].v, ret.alpha)

\* C17: with Q and C the words of the query and of the content that are longer
\* than one character and no stop words, _calculate_keyword_score returns 0 when
\* Q is empty or Q and C are disjoint, and otherwise
\* min(|Q n C| / |Q u C| + 0.5 (words of Q inside the content) / |Q|
\*     + 0.3 |Q n C| / |Q|, 1.0); the result lies in [0, 1].
C17_LexicalScore ==
    ret.op = "_calculate_keyword_score"
    => LET Q == {w \in cut(ret.query) : w \notin SingleCharacter /\ w \notin stop_words}
           C == {w \in cut(ret.content) : w \notin SingleCharacter /\ w \notin stop_words}
           inside == {w \in Q : Contains(ret.content, w)}
           sum == (Cardinality(Q \cap C) * One) \div Cardinality(Q \cup C)
                  + (((Cardinality(inside) * One) \div Cardinality(Q)) * 5) \div 10
                  + (((Cardinality(Q \cap C) * One) \div Cardinality(Q)) * 3) \div 10
       IN  /\ 0 <= ret.result
           /\ ret.result <= One
           /\ ret.result = IF Q = {} \/ Q \cap C = {} THEN 0
                           ELSE IF sum > One THEN One ELSE sum

\* a query was scored against itself: the three terms add up to more than 1
C17_Witness ==
    /\ ret.op = "_calculate_keyword_score"
    /\ ret.query = Q1
    /\ ret.content = Q1
    /\ ret.result = One

-----------------------------------------------------------------------------
(* Claims about concurrent calls of the cache, checked under SpecThreads.   *)

\* C13: whatever the interleaving of the threads' get, set and delete calls,
\* the cache never holds more than memory_cache_maxsize entries; once the calls
\* have returned, the value map and the timestamp map hold the same keys; and
\* when the calls were two sets of distinct new keys on a full cache, both
\* returned True and both keys are present with their values.
C13_SetsAreAtomic ==
    /\ Len(memory_cache) <= memory_cache_maxsize
    /\ (\A t \in Threads : threads[t].pc \in {"idle", "done"})
          => DictKeys(memory_cache) = DictKeys(cache_timestamps)
    /\ (\A t \in Threads : /\ threads[t].pc = "done"
                           /\ threads[t].op = "set"
                           /\ threads[t].full)
          => \A t \in Threads :
                 /\ threads[t].result = Some(TRUE)
                 /\ get(memory_cache, threads[t].key) = Some(threads[t].value)

-----------------------------------------------------------------------------
(* Further claims about the hybrid search, checked under SpecSearch.        *)

\* C14: the result list that step 2 of hybrid_search stored in the cache, or
\* found there, is still the value of its key when hybrid_search returns,
\* unless the key was evicted: no step of the call rewrites it.
C14_EntriesNotMutated ==
    (ret.op = "hybrid_search" /\ DictHas(memory_cache, ret.key))
    => get(memory_cache, ret.key) = Some(ret.tracks.vector_results)

-----------------------------------------------------------------------------
(* Claims about the agent, checked under SpecAgent and SpecConfidence.      *)

\* C16: whenever a step of answer_question_enhanced fails (retrieval, context
\* building, answer generation or scoring), the response has success = false,
\* the fixed error message as answer, confidence 0.0 and no sources, and it
\* carries no exception text.
C16_FailureResponse ==
    (ret.op = "answer_question_enhanced" /\ ret.fails # {})
    => /\ ret.response.success = FALSE
       /\ ret.response.answer = ErrorAnswer
       /\ ret.response.confidence = 0
       /\ ret.response.sources = <<>>
       /\ ret.response.error = None

\* C18: for results whose similarity and quality scores lie in [0, 1],
\* _calculate_enhanced_confidence returns 0 for the empty list and otherwise
\* 0.3 max(similarity) + 0.3 mean(similarity * quality) + 0.2 min(n / 3, 1)
\* + 0.2 answer_completeness, clamped to [0, 1] and rounded to 3 decimals, with
\* answer_completeness in [0.2, 1.0].
C18_Confidence ==
    ret.op = "_calculate_enhanced_confidence"
    => LET results == ret.search_results
           n == Len(results)
           similarity(i) == results[i].similarity_score
           quality(i) == OrElse(results[i].metadata.quality_score, Pct(50))
           highest == CHOOSE i \in 1..n : \A j \in 1..n : similarity(j) <= similarity(i)
           RECURSIVE weighted(_)
           weighted(i) == IF i = 0 THEN 0
                          ELSE (similarity(i) * quality(i)) \div One + weighted(i - 1)
           sum == (similarity(highest) * 3) \div 10
                  + ((weighted(n) \div n) * 3) \div 10
                  + (Min((n * One) \div 3, One) * 2) \div 10
                  + (ret.answer_completeness * 2) \div 10
       IN  /\ Pct(20) <= ret.answer_completeness
           /\ ret.answer_completeness <= One
           /\ 0 <= ret.result
           /\ ret.result <= One
           /\ ret.result = IF n = 0 THEN 0 ELSE round3(Max(0, Min(sum, One)))

\* the confidence of more than three results of unequal similarity and quality
\* was computed for an answer that is a sentence about the question
C18_Witness ==
    /\ ret.op = "_calculate_enhanced_confidence"
    /\ Len(ret.search_results) > 3
    /\ ret.search_results[1].similarity_score > ret.search_results[2].similarity_score
    /\ ret.search_results[1].metadata.quality_score
           # ret.search_results[2].metadata.quality_score
    /\ ret.answer_completeness = One
    /\ ret.result > 0

C20_Sweep ==
    ret.op = "clear_expired"
    => LET Old(key) == \E i \in DOMAIN ret.before.ts :
                          /\ ret.before.ts[i].k = key
                          /\ ret.at - ret.before.ts[i].v > 3600
       IN  /\ memory_cache = SelectSeq(ret.before.mc, LAMBDA e : ~Old(e.k))
           /\ cache_timestamps = SelectSeq(ret.before.ts, LAMBDA e : ~Old(e.k))

\* the sweep removed an entry and kept one that was exactly 3600 seconds old and
\* had been set with an expire of 1800 seconds
C20_Witness ==
    /\ ret.op = "clear_expired"
    /\ Len(ret.before.mc) = 2
    /\ Len(memory_cache) = 1
    /\ ret.stored # None
    /\ ret.stored[1].expire = SWEEP_AGE \div 2
    /\ ret.stored[1].key = memory_cache[1].k
    /\ cache_timestamps = <<[k |-> memory_cache[1].k, v |-> ret.at - SWEEP_AGE]>>

-----------------------------------------------------------------------------
(* Claims about the fusion, checked under SpecFusion.                      *)

\* C21: each of the three lists is normalized by itself.  An empty list stays
\* empty; in a list whose scores are all equal every score becomes 1.0;
\* otherwise every score s becomes (s - min) / (max - min), which lies in
\* [0, 1], is 1 for the highest and 0 for the lowest score, and keeps the order
\* of the scores.  Nothing but the score of a result changes.
C21_Normalization ==
    ret.op = "fuse"
    => \A pair \in {<<ret.vector_results, ret.normalized.vector>>,
                    <<ret.keyword_results, ret.normalized.keyword>>,
                    <<ret.semantic_results, ret.normalized.semantic>>} :
          LET given == pair[1]
              normal == pair[2]
              s(i) == given[i].similarity_score
              n(i) == normal[i].similarity_score
              highest(i) == \A j \in DOMAIN given : s(j) <= s(i)
              lowest(i) == \A j \in DOMAIN given : s(i) <= s(j)
          IN  /\ Len(normal) = Len(given)
              /\ \A i \in DOMAIN given :
                    /\ normal[i] = [given[i] EXCEPT !.similarity_score = n(i)]
                    /\ 0 <= n(i) /\ n(i) <= One
                    /\ highest(i) => n(i) = One
                    /\ (lowest(i) /\ ~highest(i)) => n(i) = 0
                    /\ \A lo \in DOMAIN given : \A hi \in DOMAIN given :
                          (lowest(lo) /\ highest(hi) /\ s(lo) < s(hi))
                          => n(i) = ((s(i) - s(lo)) * One) \div (s(hi) - s(lo))
                    /\ \A j \in DOMAIN given : s(i) <= s(j) => n(i) <= n(j)

\* a vector list with three different scores was normalized next to a keyword
\* list of one result: the middle score lies strictly between 0 and 1 and the
\* single keyword score became 1.0
C21_Witness ==
    /\ ret.op = "fuse"
    /\ Len(ret.normalized.vector) = 3
    /\ ret.normalized.vector[1].similarity_score = 0
    /\ ret.normalized.vector[2].similarity_score = Pct(50)
    /\ ret.normalized.vector[3].similarity_score = One
    /\ Len(ret.keyword_results) = 1
    /\ ret.keyword_results[1].similarity_score < One
    /\ ret.normalized.keyword[1].similarity_score = One
    /\ ret.normalized.semantic = <<>>

-----------------------------------------------------------------------------
(* Claims about the keyword track, checked under SpecKeyword.              *)

\* C23: the list _enhanced_keyword_search returns holds only chunks of the
\* collection whose keyword score is greater than 0, each once and with that
\* score, sorted by score with the highest first, and at most limit of them;
\* no chunk it leaves out scores higher than a chunk it holds; when the track
\* fails inside, the list is empty.
C23_KeywordTrack ==
    ret.op = "_enhanced_keyword_search"
    => LET score(entry) ==
               _calculate_enhanced_keyword_score(
                   OrElse(entry.metadata.original_content, entry.document),
                   ret.query, entry.metadata)
           returned == {ret.result[i].chunk_id : i \in DOMAIN ret.result}
       IN  /\ ret.raises => ret.result = <<>>
           /\ Len(ret.result) <= ret.k
           /\ \A i \in DOMAIN ret.result :
                 /\ ret.result[i].similarity_score > 0
                 /\ \E j \in DOMAIN ret.all_docs :
                       ret.result[i] = track_result(ret.all_docs[j], score(ret.all_docs[j]))
           /\ \A i \in DOMAIN ret.result : \A j \in DOMAIN ret.result :
                 /\ i < j => ret.result[i].similarity_score >= ret.result[j].similarity_score
                 /\ i # j => ret.result[i].chunk_id # ret.result[j].chunk_id
           /\ ~ret.raises =>
                 \A j \in DOMAIN ret.all_docs :
                    OrElse(ret.all_docs[j].metadata.chunk_id, "") \notin returned
                    => /\ \A i \in DOMAIN ret.result :
                             score(ret.all_docs[j]) <= ret.result[i].similarity_score
                       /\ score(ret.all_docs[j]) > 0 => Len(ret.result) = ret.k

\* of three chunks one scored 0 and two scored more; the limit of 1 kept the
\* higher of the two
C23_Witness ==
    /\ ret.op = "_enhanced_keyword_search"
    /\ ~ret.raises
    /\ ret.k = 1
    /\ Len(ret.all_docs) = 3
    /\ Len(ret.result) = 1
    /\ Cardinality({j \in DOMAIN ret.all_docs :
                      _calculate_enhanced_keyword_score(
                          OrElse(ret.all_docs[j].metadata.original_content,
                                 ret.all_docs[j].document),
                          ret.query, ret.all_docs[j].metadata) > 0}) = 2

-----------------------------------------------------------------------------
(* Further claims about the cache, checked under Spec.                     *)

\* C24: when set, get, delete and clear_expired are called one at a time, the
\* keys of memory_cache are the keys of cache_timestamps after every call.
C24_SameKeys == DictKeys(memory_cache) = DictKeys(cache_timestamps)

\* a sweep removed one of two entries: the entry that is left has its timestamp
\* and the removed one has none
C24_Witness ==
    /\ ret.op = "clear_expired"
    /\ Len(ret.before.mc) = 2
    /\ Len(memory_cache) = 1
    /\ Len(cache_timestamps) = 1

\* C25: set(k, v) on a key that is present replaces the value and the
\* timestamp of k and removes no other key, also when the cache holds
\* memory_cache_maxsize entries.
C25_OverwriteKeepsKeys ==
    [][\A key \in CacheKeys, value \in CacheValues, expire \in Expires :
          (CacheSet(key, value, expire) /\ DictHas(memory_cache, key))
          => /\ DictKeys(memory_cache') = DictKeys(memory_cache)
             /\ DictGet(memory_cache', key) = Some(value)
             /\ DictGet(cache_timestamps', key) = Some(now)
             /\ \A other \in DictKeys(memory_cache) \ {key} :
                   /\ DictGet(memory_cache', other) = DictGet(memory_cache, other)
                   /\ DictGet(cache_timestamps', other) = DictGet(cache_timestamps, other)]_vars

-----------------------------------------------------------------------------
(* Further claims about the searches, checked under SpecSearch.            *)

\* C26: once delete_document_collection has removed the collection of a
\* document, and until it is created again, search_similar_chunks_with_cache
\* and hybrid_search return the empty list for the document, for every query
\* and k, also for arguments whose results were cached before the deletion.
C26_DeletedIsEmpty ==
    (/\ ret.op \in {"search_similar_chunks_with_cache", "hybrid_search"}
     /\ ~ret.existed)
    => ret.result = <<>>

-----------------------------------------------------------------------------
(* Claims about the document task processor, checked under SpecIngest and  *)
(* SpecIngestFair.                                                         *)

\* C27: at any time at most one process_single_document task is in flight for
\* a document id, and the id is in the processing set exactly while the status
\* of the document is "processing" and a task for it has been created and has
\* not finished.
C27_OneTaskPerDocument ==
    \A d \in DocIds :
        LET in_flight == {i \in DOMAIN tasks : tasks[i].document_id = d}
        IN  /\ Cardinality(in_flight) <= 1
            /\ d \in processing
                 <=> (/\ documents[d] # None
                      /\ documents[d][1].status = "processing"
                      /\ in_flight # {})

\* C28: every document has 0 <= retry_count <= max_retries; a failed document
\* is submitted again only while its retry_count is below max_retries; and no
\* step of the task processor changes a document whose status is "completed"
\* or "failed_permanently".
C28_RetryBound ==
    /\ [](\A d \in DocIds :
             documents[d] # None
             => /\ 0 <= documents[d][1].retry_count
                /\ documents[d][1].retry_count <= documents[d][1].max_retries)
    /\ [][\A d \in DocIds :
             documents[d] # None
             => /\ (documents[d][1].status = "failed"
                       /\ documents'[d][1].status = "processing")
                   => /\ documents[d][1].retry_count < documents[d][1].max_retries
                      /\ documents'[d][1].retry_count = documents[d][1].retry_count + 1
                /\ documents[d][1].status \in {"completed", "failed_permanently"}
                   => /\ documents'[d] # None
                      /\ documents'[d][1].status = documents[d][1].status
                      /\ documents'[d][1].retry_count = documents[d][1].retry_count]_vars

\* a document failed for good with all its retries used, and the poller has
\* looked at the table since
C28_Witness ==
    /\ ret.op = "process_failed_documents"
    /\ \E d \in DocIds :
          /\ documents[d] # None
          /\ documents[d][1].status = "failed_permanently"
          /\ documents[d][1].retry_count = max_retries
    /\ \E d \in DocIds :
          /\ documents[d] # None
          /\ documents[d][1].status = "completed"

\* C29: while the polling loop runs and the tasks it creates run, every
\* document whose status is "pending" or "failed" reaches "completed" or
\* "failed_permanently"; a document reaches "failed_permanently" with exactly
\* max_retries retries made.
C29_Progress ==
    /\ \A d \in DocIds :
          (documents[d] # None /\ documents[d][1].status \in {"pending", "failed"})
          ~> (documents[d] # None
                 /\ documents[d][1].status \in {"completed", "failed_permanently"})
    /\ [](\A d \in DocIds :
             (documents[d] # None /\ documents[d][1].status = "failed_permanently")
             => documents[d][1].retry_count = documents[d][1].max_retries)

\* C30: a document whose status is "completed" has a collection in the vector
\* store, and the collection holds every chunk process_document produced.
C30_CompletedIsIndexed ==
    \A d \in DocIds :
        (documents[d] # None /\ documents[d][1].status = "completed")
        => /\ collections[d] # None
           /\ \A i \in DOMAIN DocChunks :
                 \E j \in DOMAIN collections[d][1] :
                    collections[d][1][j].id = DocChunks[i].chunk_id

====
